---- MODULE Spec2Model ----
(***************************************************************************)
(* The fixed width field codec of EmbeddedProto (src/src/FieldFixed.h).    *)
(*                                                                         *)
(* A W-bit value is the set of the positions of its one bits, so that a    *)
(* 64-bit pattern needs no 64-bit arithmetic: shifting moves the           *)
(* positions, masking intersects, or-ing unites.  A byte is a number in    *)
(* 0..255.  The buffer is a sequence of bytes, pushed at the tail and      *)
(* popped at the head, that never holds more than max_size bytes.          *)
(***************************************************************************)
EXTENDS Integers, Sequences, FiniteSets, TLC

\* ---------------------------------------------------------------- bounds
MaxSize == 10
MaxOps == 5

\* ------------------------------------------------------- the field kinds
Kinds == {"fixed32", "sfixed32", "float32", "fixed64", "sfixed64", "double64"}

FIXED64 == 1
FIXED32 == 5

WIRE_TYPE(f) == IF f \in {"fixed32", "sfixed32", "float32"} THEN FIXED32 ELSE FIXED64

IsFloat(f) == f \in {"float32", "double64"}
IsSigned(f) == f \in {"sfixed32", "sfixed64"}

\* std::numeric_limits<VAR_UINT_TYPE>::digits
Digits(f) == IF WIRE_TYPE(f) = FIXED32 THEN 32 ELSE 64

\* std::numeric_limits<uint8_t>::digits
ByteDigits == 8

N_BYTES_IN_FIXED(f) == Digits(f) \div ByteDigits

DEFAULT_VALUE == {}

\* The field number each field of the message was constructed with.
FieldNumber(f) ==
  CASE f = "fixed32" -> 1
    [] f = "sfixed32" -> 2
    [] f = "float32" -> 3
    [] f = "fixed64" -> 4
    [] f = "sfixed64" -> 5
    [] f = "double64" -> 16

\* ------------------------------------------------------ bit-pattern views
Pow2(n) == 2 ^ n

SetMax(S) == CHOOSE x \in S : \A y \in S : y <= x

RECURSIVE SumPow(_)
SumPow(S) == IF S = {} THEN 0 ELSE LET x == SetMax(S) IN Pow2(x) + SumPow(S \ {x})

\* value >> i
Shr(value, i) == {k - i : k \in {j \in value : j >= i}}

\* value << i where the byte was not widened first and the shift is made in
\* 32 bits
ShlNoCast(value, i, w) == {k + i : k \in value} \cap (0 .. 31)

\* value << i, in a type of w bits
Shl(value, i, w) == {k + i : k \in value} \cap (0 .. (w - 1))

\* static_cast<uint8_t>(x & 0x00FF)
ToUint8(x) == SumPow(x \cap (0 .. 7))

\* static_cast<VAR_UINT_TYPE>(byte)
FromUint8(byte) == {k \in 0 .. 7 : (byte \div Pow2(k)) % 2 = 1}

\* a <= b for two patterns read as unsigned numbers
ULeq(a, b) ==
  LET d == (a \ b) \cup (b \ a)
  IN  d = {} \/ SetMax(d) \in b

\* a <= b for two patterns read as two's complement numbers of w bits
SLeq(a, b, w) ==
  IF ((w - 1) \in a) # ((w - 1) \in b) THEN (w - 1) \in a ELSE ULeq(a, b)

\* IEEE 754 binary32 / binary64: the exponent field and the mantissa field
ExpBits(w) == IF w = 32 THEN 23 .. 30 ELSE 52 .. 62
MantBits(w) == IF w = 32 THEN 0 .. 22 ELSE 0 .. 51

IsNaN(a, w) == ExpBits(w) \subseteq a /\ (a \cap MantBits(w)) # {}

Magnitude(a, w) == a \ {w - 1}

\* a <= b for two patterns read as IEEE floats of w bits
FLeq(a, b, w) ==
  /\ ~IsNaN(a, w)
  /\ ~IsNaN(b, w)
  /\ LET na == (w - 1) \in a
         nb == (w - 1) \in b
     IN  CASE na /\ ~nb -> TRUE
           [] ~na /\ nb -> Magnitude(a, w) = {} /\ Magnitude(b, w) = {}
           [] ~na /\ ~nb -> ULeq(Magnitude(a, w), Magnitude(b, w))
           [] na /\ nb -> ULeq(Magnitude(b, w), Magnitude(a, w))

\* a <= b in the DATA_TYPE of field f
Leq(f, a, b) ==
  IF IsFloat(f) THEN FLeq(a, b, Digits(f))
  ELSE IF IsSigned(f) THEN SLeq(a, b, Digits(f))
  ELSE ULeq(a, b)

\* std::numeric_limits<DATA_TYPE>::epsilon(): 0 for the integer types,
\* 2^-23 (0x34000000) for float, 2^-52 (0x3CB0000000000000) for double
Epsilon(f) ==
  CASE f = "float32" -> {26, 28, 29}
    [] f = "double64" -> {52, 53, 55, 58, 59, 60, 61}
    [] OTHER -> {}

\* DEFAULT_VALUE + epsilon() and DEFAULT_VALUE - epsilon(), both exact
DefaultPlusEpsilon(f) == Epsilon(f)
DefaultMinusEpsilon(f) == IF IsFloat(f) THEN Epsilon(f) \cup {Digits(f) - 1} ELSE {}

\* the window test with > and < in the place of >= and <=
IsNotDefaultStrict(f, d) ==
  ~(/\ Leq(f, d, DefaultPlusEpsilon(f)) /\ ~Leq(f, DefaultPlusEpsilon(f), d)
    /\ Leq(f, DefaultMinusEpsilon(f), d) /\ ~Leq(f, d, DefaultMinusEpsilon(f)))

\* the condition under which serialize writes the field
IsNotDefault(f, d) ==
  ~(Leq(f, d, DefaultPlusEpsilon(f)) /\ Leq(f, DefaultMinusEpsilon(f), d))

\* ------------------------------------------- the bounded byte buffer
\* A buffer is [data |-> the bytes it holds, max |-> its capacity].
get_size(buffer) == Len(buffer.data)

get_max_size(buffer) == buffer.max

push(buffer, byte) ==
  IF Len(buffer.data) < buffer.max
  THEN [result |-> TRUE, buffer |-> [buffer EXCEPT !.data = Append(@, byte)]]
  ELSE [result |-> FALSE, buffer |-> buffer]

pop(buffer) ==
  IF Len(buffer.data) > 0
  THEN [result |-> TRUE, byte |-> Head(buffer.data),
        buffer |-> [buffer EXCEPT !.data = Tail(@)]]
  ELSE [result |-> FALSE, byte |-> 0, buffer |-> buffer]

\* ------------------------------------------------- the base class Field
tag(f) == FieldNumber(f) * 8 + WIRE_TYPE(f)

RECURSIVE serialized_size_varint(_)
serialized_size_varint(value) ==
  IF value >= 128 THEN 1 + serialized_size_varint(value \div 128) ELSE 1

tag_size(f) == serialized_size_varint(tag(f))

RECURSIVE _serialize_varint(_, _)
_serialize_varint(value, buffer) ==
  IF value >= 128
  THEN LET p == push(buffer, (value % 128) + 128)
           r == _serialize_varint(value \div 128, p.buffer)
       IN  [result |-> p.result /\ r.result, buffer |-> r.buffer]
  ELSE push(buffer, value)

\* ------------------------------------------------------ class FieldFixed
serialized_data_size(f) == N_BYTES_IN_FIXED(f)

serialized_size(f) == tag_size(f) + serialized_data_size(f)

\* a constructor that leaves _data to whatever the storage held
FieldFixedUninit(number) == {0}

\* the constructor's _data(DEFAULT_VALUE)
FieldFixed(number) == DEFAULT_VALUE

set(value) == value

clear == DEFAULT_VALUE

get(d) == d

\* the loop of _serialize_fixed with the most significant byte pushed first
RECURSIVE _serialize_fixed_loop_msb_first(_, _, _, _)
_serialize_fixed_loop_msb_first(value, buffer, i, w) ==
  IF i < w
  THEN LET p == push(buffer, ToUint8(Shr(value, w - ByteDigits - i) \cap (0 .. 7)))
       IN  IF ~p.result
           THEN [result |-> FALSE, buffer |-> p.buffer]
           ELSE _serialize_fixed_loop_msb_first(value, p.buffer, i + ByteDigits, w)
  ELSE [result |-> TRUE, buffer |-> buffer]

\* the loop of _serialize_fixed from index i on, in a type of w bits
RECURSIVE _serialize_fixed_loop(_, _, _, _)
_serialize_fixed_loop(value, buffer, i, w) ==
  IF i < w
  THEN LET p == push(buffer, ToUint8(Shr(value, i) \cap (0 .. 7)))
       IN  IF ~p.result
           THEN [result |-> FALSE, buffer |-> p.buffer]
           ELSE _serialize_fixed_loop(value, p.buffer, i + ByteDigits, w)
  ELSE [result |-> TRUE, buffer |-> buffer]

_serialize_fixed(value, buffer, w) == _serialize_fixed_loop(value, buffer, 0, w)

\* the loop of _deserialize_fixed from index i on, in a type of w bits
RECURSIVE _deserialize_fixed_loop(_, _, _, _)
_deserialize_fixed_loop(temp_value, buffer, i, w) ==
  IF i < w
  THEN LET p == pop(buffer)
       IN  IF p.result
           THEN _deserialize_fixed_loop(temp_value \cup Shl(FromUint8(p.byte), i, w),
                                        p.buffer, i + ByteDigits, w)
           ELSE [result |-> FALSE, temp_value |-> temp_value, buffer |-> p.buffer]
  ELSE [result |-> TRUE, temp_value |-> temp_value, buffer |-> buffer]

\* value is the caller's variable: it is assigned only when every pop succeeded
_deserialize_fixed(value, buffer, w) ==
  LET r == _deserialize_fixed_loop({}, buffer, 0, w)
  IN  [result |-> r.result,
       value |-> IF r.result THEN r.temp_value ELSE value,
       buffer |-> r.buffer]

\* serialize without the call that writes the tag
serialize_no_tag(f, d, buffer) ==
  IF IsNotDefault(f, d)
  THEN IF serialized_size(f) <= get_max_size(buffer)
       THEN LET s == _serialize_fixed(d, buffer, Digits(f))
            IN  [result |-> "OK", buffer |-> s.buffer, checked |-> TRUE,
                 tag_ok |-> TRUE, fixed_ok |-> s.result]
       ELSE [result |-> "ERROR_BUFFER_TO_SMALL", buffer |-> buffer,
             checked |-> FALSE, tag_ok |-> TRUE, fixed_ok |-> TRUE]
  ELSE [result |-> "OK", buffer |-> buffer, checked |-> FALSE,
        tag_ok |-> TRUE, fixed_ok |-> TRUE]

\* serialize of field f holding d: the result, the buffer after the call, and
\* which of its branches ran (checked: the size test passed; tag_ok, fixed_ok:
\* what _serialize_varint and _serialize_fixed returned, both ignored)
serialize(f, d, buffer) ==
  IF IsNotDefault(f, d)
  THEN IF serialized_size(f) <= get_max_size(buffer)
       THEN LET t == _serialize_varint(tag(f), buffer)
                s == _serialize_fixed(d, t.buffer, Digits(f))
            IN  [result |-> "OK", buffer |-> s.buffer, checked |-> TRUE,
                 tag_ok |-> t.result, fixed_ok |-> s.result]
       ELSE [result |-> "ERROR_BUFFER_TO_SMALL", buffer |-> buffer,
             checked |-> FALSE, tag_ok |-> TRUE, fixed_ok |-> TRUE]
  ELSE [result |-> "OK", buffer |-> buffer, checked |-> FALSE,
        tag_ok |-> TRUE, fixed_ok |-> TRUE]

\* deserialize with the size test an argument of the other deserializers:
\* margin is added to get_size, strict makes the test <, commit stores d
\* whatever the result
deserialize_variant(f, d, buffer, margin, strict, commit) ==
  LET enough == IF strict THEN N_BYTES_IN_FIXED(f) < get_size(buffer)
                ELSE N_BYTES_IN_FIXED(f) <= get_size(buffer) + margin
      r == IF enough THEN _deserialize_fixed({}, buffer, Digits(f))
           ELSE [result |-> FALSE, value |-> {}, buffer |-> buffer]
      res == enough /\ r.result
  IN  [result |-> IF res THEN "OK" ELSE "ERROR_BUFFER_TO_SMALL",
       data |-> IF res \/ commit THEN r.value ELSE d,
       buffer |-> r.buffer,
       called |-> enough,
       fixed_ok |-> r.result \/ ~enough]

\* deserialize without the if(result) around the assignment of _data
deserialize_commit_always(f, d, buffer) == deserialize_variant(f, d, buffer, 0, FALSE, TRUE)

\* deserialize with N_BYTES_IN_FIXED < buffer.get_size()
deserialize_strict_less(f, d, buffer) == deserialize_variant(f, d, buffer, 0, TRUE, FALSE)

\* deserialize with a size test that lets one byte too few through
deserialize_off_by_one(f, d, buffer) == deserialize_variant(f, d, buffer, 1, FALSE, FALSE)

\* deserialize of field f holding d: the result, the value the field holds and
\* the buffer after the call (called: _deserialize_fixed ran; fixed_ok: what
\* it returned)
deserialize(f, d, buffer) ==
  LET enough == N_BYTES_IN_FIXED(f) <= get_size(buffer)
      r == IF enough THEN _deserialize_fixed({}, buffer, Digits(f))
           ELSE [result |-> FALSE, value |-> {}, buffer |-> buffer]
      result == enough /\ r.result
  IN  [result |-> IF result THEN "OK" ELSE "ERROR_BUFFER_TO_SMALL",
       data |-> IF result THEN r.value ELSE d,
       buffer |-> r.buffer,
       called |-> enough,
       fixed_ok |-> r.result \/ ~enough]

\* ------------------------------------------------------------- values
\* 32-bit patterns
X01020304 == {2, 8, 9, 17, 24}
SignBit32 == {31}
AllOnes32 == 0 .. 31
\* float 1.5f = 0x3FC00000, a NaN with a payload = 0x7FC00001,
\* the smallest subnormal = 0x00000001, the float next above epsilon
OnePointFive32 == 22 .. 29
NaN32 == {0} \cup (22 .. 30)
Subnormal32 == {0}
NegEpsilon32 == {26, 28, 29, 31}
AboveEpsilon32 == {0, 26, 28, 29}

\* 64-bit patterns
X0102030405060708 == {3, 8, 9, 10, 17, 18, 24, 26, 34, 40, 41, 49, 56}
SignBit64 == {63}
AllOnes64 == 0 .. 63
\* double 1.5 = 0x3FF8000000000000, a NaN with a payload = 0x7FF8000000000001
OnePointFive64 == 51 .. 61
NaN64 == {0} \cup (51 .. 62)
Subnormal64 == {0}
NegEpsilon64 == {52, 53, 55, 58, 59, 60, 61, 63}
AboveEpsilon64 == {0, 52, 53, 55, 58, 59, 60, 61}

\* the arguments the driver passes to set and operator=
SetValues(f) ==
  CASE f = "fixed32" -> {DEFAULT_VALUE, X01020304}
    [] f = "sfixed32" -> {SignBit32}
    [] f = "float32" -> {SignBit32, OnePointFive32}
    [] f = "fixed64" -> {X0102030405060708}
    [] f = "sfixed64" -> {AllOnes64}
    [] f = "double64" -> {SignBit64, OnePointFive64}

\* the values whose round trip is tried
RoundTripValues(f) ==
  CASE f = "fixed32" -> {DEFAULT_VALUE, {0}, X01020304, SignBit32, AllOnes32}
    [] f = "sfixed32" -> {DEFAULT_VALUE, {0}, X01020304, SignBit32, AllOnes32}
    [] f = "float32" -> {DEFAULT_VALUE, SignBit32, OnePointFive32, NaN32, AllOnes32,
                         Subnormal32, Epsilon("float32"), NegEpsilon32,
                         AboveEpsilon32, X01020304}
    [] f = "fixed64" -> {DEFAULT_VALUE, {0}, X0102030405060708, SignBit64, AllOnes64}
    [] f = "sfixed64" -> {DEFAULT_VALUE, {0}, X0102030405060708, SignBit64, AllOnes64}
    [] f = "double64" -> {DEFAULT_VALUE, SignBit64, OnePointFive64, NaN64, AllOnes64,
                          Subnormal64, Epsilon("double64"), NegEpsilon64,
                          AboveEpsilon64, X0102030405060708}

\* the capacities of the buffers the driver hands to the fields
Capacities == {6, MaxSize}

\* -------------------------------------------------------------- state
VARIABLES
  data,    \* data[f]: the _data of field f
  buffer,  \* the shared buffer
  result,  \* what the last serialize or deserialize returned
  last,    \* the last call: its operation, field, argument and pre-state
  nops,    \* the number of calls made so far
  pc,      \* the position of the round-trip driver
  rt       \* the field and the value of the round trip

vars == <<data, buffer, result, last, nops, pc, rt>>

NoCall ==
  [op |-> "none", f |-> "none", arg |-> {}, pre_data |-> {}, pre_buf |-> <<>>,
   checked |-> FALSE, tag_ok |-> TRUE, fixed_ok |-> TRUE, called |-> FALSE]

Call(op, f, arg) ==
  [NoCall EXCEPT !.op = op, !.f = f, !.arg = arg,
                 !.pre_data = data[f], !.pre_buf = buffer.data]

Init ==
  /\ data = [f \in Kinds |-> FieldFixed(FieldNumber(f))]
  /\ \E c \in Capacities : buffer = [data |-> <<>>, max |-> c]
  /\ result = "none"
  /\ last = NoCall
  /\ nops = 0
  /\ pc = "idle"
  /\ rt = [f |-> "none", v |-> {}]

Set(f, value) ==
  /\ pc = "idle" /\ nops < MaxOps
  /\ data' = [data EXCEPT ![f] = set(value)]
  /\ last' = Call("set", f, value)
  /\ nops' = nops + 1
  /\ UNCHANGED <<buffer, result, pc, rt>>

\* operator= calls set
Assign(f, value) ==
  /\ pc = "idle" /\ nops < MaxOps
  /\ data' = [data EXCEPT ![f] = set(value)]
  /\ last' = Call("assign", f, value)
  /\ nops' = nops + 1
  /\ UNCHANGED <<buffer, result, pc, rt>>

Clear(f) ==
  /\ pc = "idle" /\ nops < MaxOps
  /\ data' = [data EXCEPT ![f] = clear]
  /\ last' = Call("clear", f, {})
  /\ nops' = nops + 1
  /\ UNCHANGED <<buffer, result, pc, rt>>

Serialize(f) ==
  /\ pc = "idle" /\ nops < MaxOps
  /\ LET r == serialize(f, data[f], buffer)
     IN  /\ buffer' = r.buffer
         /\ result' = r.result
         /\ last' = [Call("serialize", f, {}) EXCEPT !.checked = r.checked,
                       !.tag_ok = r.tag_ok, !.fixed_ok = r.fixed_ok]
  /\ nops' = nops + 1
  /\ UNCHANGED <<data, pc, rt>>

Deserialize(f) ==
  /\ pc = "idle" /\ nops < MaxOps
  /\ LET r == deserialize(f, data[f], buffer)
     IN  /\ buffer' = r.buffer
         /\ result' = r.result
         /\ data' = [data EXCEPT ![f] = r.data]
         /\ last' = [Call("deserialize", f, {}) EXCEPT !.called = r.called,
                       !.fixed_ok = r.fixed_ok]
  /\ nops' = nops + 1
  /\ UNCHANGED <<pc, rt>>

\* the message-level driver takes one byte (of a tag) out of the buffer
Pop ==
  /\ pc = "idle" /\ nops < MaxOps
  /\ get_size(buffer) > 0
  /\ buffer' = pop(buffer).buffer
  /\ last' = [NoCall EXCEPT !.op = "pop", !.pre_buf = buffer.data]
  /\ nops' = nops + 1
  /\ UNCHANGED <<data, result, pc, rt>>

Next ==
  \/ \E f \in Kinds : \E value \in SetValues(f) : Set(f, value)
  \/ \E f \in Kinds : \E value \in SetValues(f) : Assign(f, value)
  \/ \E f \in Kinds : Clear(f)
  \/ \E f \in Kinds : Serialize(f)
  \/ \E f \in Kinds : Deserialize(f)
  \/ Pop

Spec == Init /\ [][Next]_vars

\* ------------------------------------------------ the round-trip driver
\* One field is set to a value and serialized into an empty buffer with room
\* for it; the driver then constructs a fresh field of the same kind, reads
\* the tag off the buffer and has the fresh field deserialize the payload.
InitRT ==
  /\ data = [f \in Kinds |-> FieldFixed(FieldNumber(f))]
  /\ \E f \in Kinds : \E v \in RoundTripValues(f) :
       /\ rt = [f |-> f, v |-> v]
       /\ \E c \in {serialized_size(f), serialized_size(f) + MaxSize} : buffer = [data |-> <<>>, max |-> c]
  /\ result = "none"
  /\ last = NoCall
  /\ nops = 0
  /\ pc = "set"

RTSet ==
  /\ pc = "set"
  /\ data' = [data EXCEPT ![rt.f] = set(rt.v)]
  /\ pc' = "serialize"
  /\ UNCHANGED <<buffer, result, last, nops, rt>>

RTSerialize ==
  /\ pc = "serialize"
  /\ LET r == serialize(rt.f, data[rt.f], buffer)
     IN  /\ buffer' = r.buffer
         /\ result' = r.result
  /\ pc' = "construct"
  /\ UNCHANGED <<data, last, nops, rt>>

\* the receiving side's field: FieldFixed(number)
RTConstruct ==
  /\ pc = "construct"
  /\ data' = [data EXCEPT ![rt.f] = FieldFixed(FieldNumber(rt.f))]
  /\ pc' = "tag"
  /\ UNCHANGED <<buffer, result, last, nops, rt>>

\* the driver pops the bytes of the varint tag: the last one is below 128
RTPopTag ==
  /\ pc = "tag"
  /\ get_size(buffer) > 0
  /\ LET p == pop(buffer)
     IN  /\ buffer' = p.buffer
         /\ pc' = IF p.byte < 128 THEN "deserialize" ELSE "tag"
  /\ UNCHANGED <<data, result, last, nops, rt>>

\* nothing was written: the message holds no occurrence of the field
RTNoField ==
  /\ pc = "tag"
  /\ get_size(buffer) = 0
  /\ pc' = "done"
  /\ UNCHANGED <<data, buffer, result, last, nops, rt>>

RTDeserialize ==
  /\ pc = "deserialize"
  /\ LET r == deserialize(rt.f, data[rt.f], buffer)
     IN  /\ buffer' = r.buffer
         /\ result' = r.result
         /\ data' = [data EXCEPT ![rt.f] = r.data]
  /\ pc' = "done"
  /\ UNCHANGED <<last, nops, rt>>

NextRT ==
  \/ RTSet
  \/ RTSerialize
  \/ RTConstruct
  \/ RTPopTag
  \/ RTNoField
  \/ RTDeserialize

SpecRT == InitRT /\ [][NextRT]_vars

\* ------------------------------------------------------------ properties
\* the payload width of a field in bytes, as the wire format fixes it
PayloadWidth(f) == IF f \in {"fixed32", "sfixed32", "float32"} THEN 4 ELSE 8

\* the varint tag bytes of each field of the message
ExpectedTagBytes(f) ==
  CASE f = "fixed32" -> <<13>>
    [] f = "sfixed32" -> <<21>>
    [] f = "float32" -> <<29>>
    [] f = "fixed64" -> <<33>>
    [] f = "sfixed64" -> <<41>>
    [] f = "double64" -> <<129, 1>>

\* byte k (0 the least significant) of pattern x
ByteAt(x, k) == SumPow({j \in 0 .. 7 : (8 * k + j) \in x})

LittleEndianBytes(x, n) == [k \in 1 .. n |-> ByteAt(x, k - 1)]

\* the pattern whose k-th byte, least significant first, is bytes[k + 1]
PatternOf(bytes, n) ==
  {b \in 0 .. (8 * n - 1) : (bytes[(b \div 8) + 1] \div Pow2(b % 8)) % 2 = 1}

Remaining(pre_buf) == buffer.max - Len(pre_buf)

Needed(f) == Len(ExpectedTagBytes(f)) + PayloadWidth(f)

\* a float pattern in the window [-epsilon, +epsilon]
InEpsilonWindow(f, v) ==
  /\ IsFloat(f)
  /\ ~IsNaN(v, Digits(f))
  /\ ULeq(Magnitude(v, Digits(f)), Epsilon(f))

\* C1: a serialize of a non-default value that needs more bytes than the
\* buffer has left appends nothing and returns the buffer-too-small failure.
C1_OverflowWritesNothing ==
  (/\ last.op = "serialize"
   /\ IsNotDefault(last.f, last.pre_data)
   /\ Needed(last.f) > Remaining(last.pre_buf))
  => (buffer.data = last.pre_buf /\ result = "ERROR_BUFFER_TO_SMALL")

\* C2 as stated: after the round trip the fresh field holds the value that was
\* serialized, bit for bit, for every value of every kind.
C2_RoundTripEveryValue ==
  pc = "done" => get(data[rt.f]) = rt.v

\* C2 as amended: the round trip returns the value bit for bit for every value
\* of the integer kinds and every float outside [-epsilon, +epsilon] (NaN
\* included); a float inside the window is elided and reads back as +0.0.
C2_RoundTripOutsideWindow ==
  pc = "done" =>
    get(data[rt.f]) = IF InEpsilonWindow(rt.f, rt.v) THEN DEFAULT_VALUE ELSE rt.v

C2_Witness ==
  /\ pc = "done"
  /\ rt.f = "double64"
  /\ rt.v = NaN64
  /\ result = "OK"
  /\ data["double64"] = NaN64

\* C3: a serialize of a value equal to zero appends nothing and returns
\* success whatever room the buffer has, and serialized_data_size is 4 or 8
\* in every state.
C3_DefaultElision ==
  /\ \A f \in Kinds : serialized_data_size(f) = PayloadWidth(f)
  /\ (/\ last.op = "serialize"
      /\ \/ last.pre_data = {}
         \/ IsFloat(last.f) /\ last.pre_data = {Digits(last.f) - 1})
     => (buffer.data = last.pre_buf /\ result = "OK")

C3_Witness ==
  /\ last.op = "serialize"
  /\ last.pre_data = {}
  /\ Len(last.pre_buf) = buffer.max
  /\ result = "OK"

\* C4: a deserialize on a buffer that holds fewer bytes than the payload
\* width returns the underrun failure and leaves the stored value as it was.
C4_Underrun ==
  (last.op = "deserialize" /\ Len(last.pre_buf) < PayloadWidth(last.f))
  => (result = "ERROR_BUFFER_TO_SMALL" /\ get(data[last.f]) = last.pre_data)

C4_Witness ==
  /\ last.op = "deserialize"
  /\ Len(last.pre_buf) = PayloadWidth(last.f) - 1
  /\ last.pre_data # {}
  /\ result = "ERROR_BUFFER_TO_SMALL"

\* C5: a serialize of a non-default value that needs no more bytes than the
\* buffer has left returns success and appends the tag bytes and then the
\* payload bytes, least significant first, and nothing else.
C5_FitAndLayout ==
  (/\ last.op = "serialize"
   /\ IsNotDefault(last.f, last.pre_data)
   /\ Needed(last.f) <= Remaining(last.pre_buf))
  => /\ result = "OK"
     /\ buffer.data = last.pre_buf \o ExpectedTagBytes(last.f)
                        \o LittleEndianBytes(last.pre_data, PayloadWidth(last.f))

C5_Witness ==
  /\ last.op = "serialize"
  /\ IsNotDefault(last.f, last.pre_data)
  /\ last.pre_buf # <<>>
  /\ Needed(last.f) = Remaining(last.pre_buf)
  /\ Len(buffer.data) = buffer.max

\* C6: _serialize_fixed pushes W/8 bytes, the k-th being bits 8k..8k+7 of the
\* value (0x01020304 gives 4, 3, 2, 1), and _deserialize_fixed turns those
\* bytes back into the value.
C6_LittleEndian ==
  LET w == Digits(rt.f)
      n == PayloadWidth(rt.f)
      s == _serialize_fixed(rt.v, [data |-> <<>>, max |-> n], w)
      d == _deserialize_fixed({}, s.buffer, w)
  IN  /\ s.result
      /\ s.buffer.data = LittleEndianBytes(rt.v, n)
      /\ (rt.v = X01020304 /\ w = 32) => s.buffer.data = <<4, 3, 2, 1>>
      /\ d.result
      /\ d.value = rt.v
      /\ d.buffer.data = <<>>
      /\ (pc = "construct" /\ get_size(buffer) > 0)
           => buffer.data = ExpectedTagBytes(rt.f) \o s.buffer.data

C6_Witness ==
  /\ pc = "construct"
  /\ rt.f = "fixed32"
  /\ rt.v = X01020304
  /\ buffer.data = <<13, 4, 3, 2, 1>>

\* C7: once the size test of a serialize has passed, no push of the call is
\* rejected, and a call that returns success has appended nothing or its
\* whole tag and payload.
C7_NoPartialWrite ==
  last.op = "serialize" =>
    /\ last.checked => (last.tag_ok /\ last.fixed_ok)
    /\ result = "OK" =>
         \/ buffer.data = last.pre_buf
         \/ Len(buffer.data) = Len(last.pre_buf) + Needed(last.f)

\* C8: a deserialize on a buffer that holds at least the payload width returns
\* success, removes exactly the first N bytes and stores the pattern they
\* spell, least significant byte first.
C8_DeserializeConsumes ==
  (last.op = "deserialize" /\ Len(last.pre_buf) >= PayloadWidth(last.f))
  => LET n == PayloadWidth(last.f)
     IN  /\ result = "OK"
         /\ buffer.data = SubSeq(last.pre_buf, n + 1, Len(last.pre_buf))
         /\ get(data[last.f]) = PatternOf(last.pre_buf, n)

C8_Witness ==
  /\ last.op = "deserialize"
  /\ result = "OK"
  /\ buffer.data # <<>>
  /\ Len(buffer.data) = Len(last.pre_buf) - PayloadWidth(last.f)
  /\ data[last.f] # last.pre_data

\* what a call may do to the stored values and the buffer
C9_Step ==
  /\ last'.op \in {"set", "assign"} =>
       /\ data' = [data EXCEPT ![last'.f] = last'.arg]
       /\ buffer' = buffer
  /\ last'.op = "clear" =>
       /\ data' = [data EXCEPT ![last'.f] = {}]
       /\ buffer' = buffer
  /\ last'.op = "serialize" => data' = data
  /\ last'.op = "pop" => data' = data
  /\ last'.op = "deserialize" =>
       data' = [data EXCEPT ![last'.f] =
                  IF result' = "OK"
                  THEN PatternOf(buffer.data, PayloadWidth(last'.f))
                  ELSE data[last'.f]]

\* C9: every field starts at zero; set and assignment store their argument,
\* clear stores zero, a successful deserialize stores the decoded pattern,
\* and nothing else changes a stored value; serialize never changes one and
\* set and clear never touch the buffer.
C9_Lifecycle ==
  /\ \A f \in Kinds : get(data[f]) = {}
  /\ [][C9_Step]_vars

C9_Witness ==
  /\ last.op = "serialize"
  /\ result = "ERROR_BUFFER_TO_SMALL"
  /\ data[last.f] = X0102030405060708

\* C10: a deserialize removes the whole payload and succeeds, or removes
\* nothing and fails without calling _deserialize_fixed; no pop of
\* _deserialize_fixed ever fails.
C10_AllOrNothing ==
  last.op = "deserialize" =>
    /\ last.fixed_ok
    /\ \/ /\ result = "OK"
          /\ last.called
          /\ Len(buffer.data) = Len(last.pre_buf) - PayloadWidth(last.f)
       \/ /\ result = "ERROR_BUFFER_TO_SMALL"
          /\ ~last.called
          /\ buffer.data = last.pre_buf

C10_Witness ==
  /\ last.op = "deserialize"
  /\ result = "ERROR_BUFFER_TO_SMALL"
  /\ last.pre_buf # <<>>
  /\ buffer.data = last.pre_buf

====
